---- MODULE Spec2Model ----
(***************************************************************************)
(* Model of the solubility-law engine of EVo (src/solubility_laws.py):     *)
(* the per-species law functions, the implicit solvers for CO2 and N2, the *)
(* sulfur speciation, and the dispatch layer that selects a law by name.   *)
(*                                                                         *)
(* Numbers.  The laws are products, quotients and rational powers of       *)
(* positive reals.  A real is modelled exactly as a signed monomial        *)
(*     s * PROD g^(e[g])       s in {-1,0,1},  e[g] a rational <<n,d>>     *)
(* over generators g: the primes "2","3","5", Euler's "e", and named       *)
(* positive quantities the engine reads from its collaborators (molar      *)
(* masses cnst.m[..], solCon["a"], melt density, ...).  Equal monomials    *)
(* are equal reals.  NaN is the value numpy yields for a logarithm or a    *)
(* fractional power of a negative number.                                  *)
(***************************************************************************)
EXTENDS Integers, Sequences, FiniteSets, TLC

(* graphite_sat, cm_dry: the attributes of the melt the calls are made on. *)
(* call, n2: the last call, and the N2 solver ladder in progress.          *)
(* shared, caller, melts: two callers that evaluate on one melt object     *)
(* (shared) or on one melt object each, their positions and their melts.   *)
VARIABLES graphite_sat, cm_dry, call, n2, shared, caller, melts,
          mol_fracs, nbo

seqvars == <<graphite_sat, cm_dry, call, n2>>
parvars == <<shared, caller, melts>>
nbovars == <<mol_fracs, nbo>>
vars == <<graphite_sat, cm_dry, call, n2, shared, caller, melts, mol_fracs, nbo>>

----------------------------------------------------------------------------
(* Rationals <<n, d>>, d > 0, in lowest terms.                             *)

Abs(n) == IF n < 0 THEN -n ELSE n

RECURSIVE GCD(_, _)
GCD(a, b) == IF b = 0 THEN a ELSE GCD(b, a % b)

Rat(n, d) ==
    LET g == GCD(Abs(n), Abs(d))
        sg == IF d < 0 THEN -1 ELSE 1
    IN  <<sg * (n \div g), Abs(d) \div g>>

RZero == <<0, 1>>
ROne == <<1, 1>>

RNeg(x) == <<-x[1], x[2]>>

RAdd(x, y) ==
    LET g == GCD(x[2], y[2])
        l == (x[2] \div g) * y[2]
    IN  Rat(x[1] * (l \div x[2]) + y[1] * (l \div y[2]), l)

RSub(x, y) == RAdd(x, RNeg(y))

RMul(x, y) ==
    LET a == Rat(x[1], y[2])
        b == Rat(y[1], x[2])
    IN  Rat(a[1] * b[1], a[2] * b[2])

RInv(x) == Rat(x[2], x[1])

RDiv(x, y) == RMul(x, RInv(y))

RLess(x, y) == RSub(x, y)[1] < 0

----------------------------------------------------------------------------
(* Signed monomials.                                                       *)

NoGen == [g \in {} |-> RZero]

One == [s |-> 1, e |-> NoGen]
Zero == [s |-> 0, e |-> NoGen]
NaN == [s |-> 2, e |-> NoGen]

IsNaN(v) == v.s = 2

(* Python's None, where a value is optional or a call returns nothing.     *)
PyNone == [s |-> 3, e |-> NoGen]

ExpOf(m, g) == IF g \in DOMAIN m THEN m[g] ELSE RZero

Trim(f) == [g \in {h \in DOMAIN f : f[h][1] # 0} |-> f[g]]

MonoMul(a, b) ==
    Trim([g \in DOMAIN a \cup DOMAIN b |-> RAdd(ExpOf(a, g), ExpOf(b, g))])

MonoPow(a, q) == Trim([g \in DOMAIN a |-> RMul(a[g], q)])

Gen(g, q) == [s |-> 1, e |-> Trim([h \in {g} |-> q])]

Atom(g) == Gen(g, ROne)

Neg(v) == IF IsNaN(v) THEN NaN ELSE [s |-> -v.s, e |-> v.e]

Mul(x, y) ==
    IF IsNaN(x) \/ IsNaN(y) THEN NaN
    ELSE IF x.s = 0 \/ y.s = 0 THEN Zero
    ELSE [s |-> x.s * y.s, e |-> MonoMul(x.e, y.e)]

Inv(x) ==
    IF IsNaN(x) \/ x.s = 0 THEN NaN
    ELSE [s |-> x.s, e |-> MonoPow(x.e, <<-1, 1>>)]

Div(x, y) == Mul(x, Inv(y))

(* x ** q as numpy evaluates it: nan for a negative base and a fractional  *)
(* exponent, 0 for 0 ** q with q > 0.                                      *)
Pow(x, q) ==
    IF IsNaN(x) THEN NaN
    ELSE IF q[1] = 0 THEN One
    ELSE IF x.s = 0 THEN (IF q[1] > 0 THEN Zero ELSE NaN)
    ELSE IF x.s < 0 /\ q[2] # 1 THEN NaN
    ELSE [s |-> IF x.s < 0 /\ q[1] % 2 = 0 THEN 1 ELSE x.s,
          e |-> MonoPow(x.e, q)]

(* 10 ** q and exp(q) for a rational q.                                    *)
Ten(q) == Mul(Gen("2", q), Gen("5", q))
Exp(q) == Gen("e", q)

(* The multiplicity of the prime p in n >= 1, and n without its factors p. *)
RECURSIVE Mult(_, _)
Mult(n, p) == IF n % p = 0 THEN 1 + Mult(n \div p, p) ELSE 0

RECURSIVE Strip(_, _)
Strip(n, p) == IF n % p = 0 THEN Strip(n \div p, p) ELSE n

(* A positive integer: its factors 2, 3 and 5, times the cofactor that is  *)
(* left (611 in 0.0611e-6, 17 in 3.4e-7), which is a generator of its own. *)
NatVal(n) ==
    LET r == Strip(Strip(Strip(n, 2), 3), 5)
        c == IF r = 1 THEN One ELSE Atom("n:" \o ToString(r))
    IN  Mul(Mul(Gen("2", <<Mult(n, 2), 1>>), Gen("3", <<Mult(n, 3), 1>>)),
            Mul(Gen("5", <<Mult(n, 5), 1>>), c))

(* The rational n/d as a value.                                            *)
Num(n, d) ==
    IF n = 0 THEN Zero
    ELSE LET v == Div(NatVal(Abs(n)), NatVal(d))
         IN  IF n < 0 THEN Neg(v) ELSE v

(* 1 + q for q >= 0: a positive quantity named after q.                    *)
OnePlus(q) ==
    IF IsNaN(q) \/ q.s < 0 THEN NaN
    ELSE IF q.s = 0 THEN One
    ELSE Atom("1+" \o ToString(q.e))

(* x + y for x > 0 and y >= 0, through x + y = x * (1 + y/x).              *)
Add(x, y) ==
    IF IsNaN(x) \/ IsNaN(y) \/ x.s # 1 THEN NaN
    ELSE Mul(x, OnePlus(Div(y, x)))

(* log10 of a pure power of ten, as a rational; used to order fugacities.  *)
IsPow10(v) ==
    v.s = 1 /\ DOMAIN v.e \subseteq {"2", "5"}
            /\ ExpOf(v.e, "2") = ExpOf(v.e, "5")
Log10(v) == ExpOf(v.e, "2")

Gt(x, y) == RLess(Log10(y), Log10(x))

----------------------------------------------------------------------------
(* The collaborators the engine reads: constants, gas species, the melt.   *)

(* cnst.m[species]: the molar mass, a positive constant.                   *)
MolarMass(sp) == Atom("m:" \o sp)

(* A gas species object: solCon = {a, b} and the stored coefficient Y.     *)
Molecule(a, b, Y) == [solCon |-> [a |-> a, b |-> b], Y |-> Y]

(* melt.rho(P): the melt density at pressure P (Pa), or at the melt's      *)
(* default conditions when no pressure is passed ("default").              *)
Rho(P) == Atom("rho:" \o ToString(P))

(* melt.rho() with no pressure: the density at the melt's own conditions,  *)
(* here a pressure of DefaultBar bar.                                      *)
DefaultBar == 1000
RhoDefault == Rho(DefaultBar * 100000)

----------------------------------------------------------------------------
(* Per-species law functions.  P, T are integers (bar, K).                 *)

k_ardia(P) ==
    Exp(RSub(Rat(493, 100), RMul(Rat(193, 1000000), Rat(P, 10000))))

ardia2013(fCH4, P) ==
    Div(Mul(k_ardia(P), Mul(fCH4, Ten(<<-4, 1>>))), Ten(<<6, 1>>))

ardia2013_fugacity(melt_CH4, P) ==
    Mul(Div(Mul(melt_CH4, Ten(<<6, 1>>)), k_ardia(P)), Ten(<<4, 1>>))

(* 10 ** (c + q * log10(x)): log10(0) is -inf and 10 ** -inf is 0;         *)
(* log10 of a negative number is nan.                                      *)
TenLog(c, q, x) ==
    IF IsNaN(x) \/ x.s < 0 THEN NaN
    ELSE IF x.s = 0 THEN Zero
    ELSE Mul(Ten(c), Pow(x, q))

armstrong2015(fCO, P) ==
    LET C == TenLog(RSub(Rat(-738, 1000), RMul(Rat(544, 10000000), <<P, 1>>)),
                    Rat(876, 1000), fCO)
    IN  Div(C, Ten(<<6, 1>>))

(* A variant of armstrong2015_fugacity without the ppm scaling.            *)
M_armstrong2015_fugacity(melt_CO, P) ==
    TenLog(RDiv(RAdd(Rat(738, 1000), RMul(Rat(544, 10000000), <<P, 1>>)),
                Rat(876, 1000)),
           RInv(Rat(876, 1000)), melt_CO)

armstrong2015_fugacity(melt_CO, P) ==
    LET m == Mul(melt_CO, Ten(<<6, 1>>))
        c == RAdd(Rat(738, 1000), RMul(Rat(544, 10000000), <<P, 1>>))
    IN  TenLog(RDiv(c, Rat(876, 1000)), RInv(Rat(876, 1000)), m)

burguisser2015_co2(fCO2, CO2) ==
    Mul(CO2.solCon.a, Pow(fCO2, CO2.solCon.b))

burguisser2015_co2_fugacity(melt_co2, CO2) ==
    Pow(Div(melt_co2, CO2.solCon.a), RInv(CO2.solCon.b))

(* A variant of burguisser2015_h2 that tests the override for truth        *)
(* (if H2Y:) and so takes an override of 0 for none.                       *)
M_burguisser2015_h2(mH2, H2, P, H2Y) ==
    IF H2Y = PyNone \/ H2Y = Zero
    THEN Mul(H2.solCon.a, Pow(Mul(Mul(H2.Y, mH2), Num(P, 1)), H2.solCon.b))
    ELSE Mul(H2.solCon.a, Pow(Mul(Mul(H2Y, mH2), Num(P, 1)), H2.solCon.b))

(* H2Y = PyNone when no override is passed.                                *)
burguisser2015_h2(mH2, H2, P, H2Y) ==
    IF H2Y = PyNone
    THEN Mul(H2.solCon.a, Pow(Mul(Mul(H2.Y, mH2), Num(P, 1)), H2.solCon.b))
    ELSE Mul(H2.solCon.a, Pow(Mul(Mul(H2Y, mH2), Num(P, 1)), H2.solCon.b))

burguisser2015_h2_fugacity(melt_h2, H2) ==
    Pow(Div(melt_h2, H2.solCon.a), RInv(H2.solCon.b))

(* 3.4e-7 *)
c_gaillard == Mul(Num(34, 1), Ten(<<-8, 1>>))

(* A variant of gaillard2003_h2 that takes the density at the melt's own   *)
(* conditions, as the inverse does.                                        *)
M_gaillard2003_h2(mH2, H2, P, H2Y) ==
    Div(Mul(c_gaillard,
            Pow(Mul(Mul(IF H2Y = PyNone THEN H2.Y ELSE H2Y, mH2), Num(P, 1)),
                Rat(128, 100))),
        Div(RhoDefault, Ten(<<3, 1>>)))

gaillard2003_h2(mH2, H2, P, H2Y) ==
    LET melt_density == Div(Rho(P * 100000), Ten(<<3, 1>>))
    IN  IF H2Y = PyNone
        THEN Div(Mul(c_gaillard,
                     Pow(Mul(Mul(H2.Y, mH2), Num(P, 1)), Rat(128, 100))),
                 melt_density)
        ELSE Div(Mul(c_gaillard,
                     Pow(Mul(Mul(H2Y, mH2), Num(P, 1)), Rat(128, 100))),
                 melt_density)

gaillard2003_h2_fugacity(melt_h2) ==
    LET melt_density == Div(RhoDefault, Ten(<<3, 1>>))
    IN  Pow(Div(Mul(melt_h2, melt_density), c_gaillard), RInv(Rat(128, 100)))

burguisser2015_h2o(mH2O, H2O, P, H2OY) ==
    IF H2OY = PyNone
    THEN Mul(H2O.solCon.a, Pow(Mul(Mul(H2O.Y, mH2O), Num(P, 1)), H2O.solCon.b))
    ELSE Mul(H2O.solCon.a, Pow(Mul(Mul(H2OY, mH2O), Num(P, 1)), H2O.solCon.b))

(* A variant of burguisser2015_h2o_fugacity with exponent b for 1/b.       *)
M_burguisser2015_h2o_fugacity(melt_h2o, H2O) ==
    Pow(Div(melt_h2o, H2O.solCon.a), H2O.solCon.b)

burguisser2015_h2o_fugacity(melt_h2o, H2O) ==
    Pow(Div(melt_h2o, H2O.solCon.a), RInv(H2O.solCon.b))

----------------------------------------------------------------------------
(* The melt object.  The engine reads and writes two of its attributes:    *)
(*   graphite_sat  a boolean;                                              *)
(*   cm_dry        a reference to a dict of oxide mole fractions.  ref     *)
(*                 names the dict object (0: the empty dict the melt is    *)
(*                 built with), feo and fe2o3 are its entries in 1e-6.     *)

EmptyDict == [ref |-> 0, empty |-> TRUE, feo |-> 0, fe2o3 |-> 0]

Melt(gs, cd) == [graphite_sat |-> gs, cm_dry |-> cd]

(* fO2 is drawn as 10^-k; FO2(k) is its value.                             *)
FO2(k) == Ten(<<-k, 1>>)

(* melt.iron_fraction(ln fO2, ppa)[0]: the dry melt composition with the   *)
(* iron split between FeO and Fe2O3 for this fO2 and P: more ferric iron   *)
(* at higher fO2, none at the most reduced conditions.                     *)
IronFraction(k, P) ==
    LET fe3 == 10000 * ((12 - k) \div 2) + (IF P > 1000 THEN 10000 ELSE 0)
    IN  [feo |-> 100000 - 2 * fe3, fe2o3 |-> fe3]

(* melt.Cm(): the melt's composition as a new dict of mole fractions.      *)
Cm == [feo |-> 80000, fe2o3 |-> 10000]

(* cnvs.fo2_2F(melt.Cm(), T, P, ln fO2, run.FO2_MODEL): mFe2O3/mFeO.       *)
fo2_2F(C, T, P, k, model) == Atom("F:" \o ToString(<<C, T, P, k, model>>))

(* The run definition: run.SULFIDE_CAPACITY and run.FO2_MODEL.             *)
RunDef(cap) == [SULFIDE_CAPACITY |-> cap, FO2_MODEL |-> "kc1991"]

----------------------------------------------------------------------------
(* What a call does: how it ends ("return" or "raise"), the value it       *)
(* returns (PyNone when the function falls off its end), the exception,    *)
(* the law functions it evaluated, the melt it leaves and the melt         *)
(* attributes it assigned.                                                 *)

Return(v, laws, melt, writes) ==
    [out |-> "return", val |-> v, exc |-> "", laws |-> laws,
     melt |-> melt, writes |-> writes]

Raise(x, laws, melt, writes) ==
    [out |-> "raise", val |-> PyNone, exc |-> x, laws |-> laws,
     melt |-> melt, writes |-> writes]

----------------------------------------------------------------------------
(* CO2: Eguchi and Dasgupta (2018).                                        *)

(* NBO(mol_fracs), the non-bridging oxygens of a composition.  The oxide   *)
(* mole fractions are whole numbers of one common unit; nfe3 * 1.5 is      *)
(* fe2o3 * 3.  `bound` holds the locals the two case splits have assigned: *)
(* with fe_tet or al_tet unassigned, the line that reads it raises         *)
(* UnboundLocalError.                                                      *)
Oxides == {"sio2", "tio2", "al2o3", "feo", "fe2o3", "mno", "mgo", "cao",
           "na2o", "k2o", "p2o5"}

(* A variant of NBO whose last fe_tet branch asks for Al < 0.              *)
M_NBO(fracs) ==
    LET nsi == fracs["sio2"]
        nti == fracs["tio2"]
        nal == fracs["al2o3"] * 2
        nfe2 == fracs["feo"]
        nfe3 == fracs["fe2o3"] * 2
        nmn == fracs["mno"]
        nmg == fracs["mgo"]
        nca == fracs["cao"]
        nna == fracs["na2o"] * 2
        nk == fracs["k2o"] * 2
        np == fracs["p2o5"] * 2
        o == fracs["sio2"] * 2 + fracs["tio2"] * 2 + fracs["al2o3"] * 3 + nfe2
               + fracs["fe2o3"] * 3 + fracs["mno"] + fracs["mgo"] + fracs["cao"]
               + fracs["na2o"] + fracs["k2o"] + fracs["p2o5"] * 5
        NM == nmg + nca + nfe2 + nna + nk + nmn
        Al == nal - NM
        al_tet == IF Al > 0 THEN NM ELSE nal
        Fe == nfe3 + Al
        fe_bound == Al > 0 \/ (Al <= 0 /\ Fe > 0) \/ (Al < 0 /\ Fe <= 0)
        fe_tet == IF Al > 0 THEN 0
                  ELSE IF Al <= 0 /\ Fe > 0 THEN Al * (-1)
                  ELSE IF Al < 0 /\ Fe <= 0 THEN nfe3
                  ELSE 0
        Tet == nsi + nti + np + al_tet + fe_tet
    IN  IF fe_bound
        THEN [out |-> "return", exc |-> "", bound |-> {"al_tet", "fe_tet"},
              al_tet |-> al_tet, fe_tet |-> fe_tet, val |-> 2 * o - 4 * Tet]
        ELSE [out |-> "raise", exc |-> "UnboundLocalError", bound |-> {"al_tet"},
              al_tet |-> al_tet, fe_tet |-> 0, val |-> 0]

NBO(fracs) ==
    LET nsi == fracs["sio2"]
        nti == fracs["tio2"]
        nal == fracs["al2o3"] * 2
        nfe2 == fracs["feo"]
        nfe3 == fracs["fe2o3"] * 2
        nmn == fracs["mno"]
        nmg == fracs["mgo"]
        nca == fracs["cao"]
        nna == fracs["na2o"] * 2
        nk == fracs["k2o"] * 2
        np == fracs["p2o5"] * 2
        o == fracs["sio2"] * 2 + fracs["tio2"] * 2 + fracs["al2o3"] * 3 + nfe2
               + fracs["fe2o3"] * 3 + fracs["mno"] + fracs["mgo"] + fracs["cao"]
               + fracs["na2o"] + fracs["k2o"] + fracs["p2o5"] * 5
        NM == nmg + nca + nfe2 + nna + nk + nmn
        Al == nal - NM
        al_tet == IF Al > 0 THEN NM ELSE nal
        Fe == nfe3 + Al
        fe_bound == Al > 0 \/ (Al <= 0 /\ Fe > 0) \/ (Al <= 0 /\ Fe <= 0)
        fe_tet == IF Al > 0 THEN 0
                  ELSE IF Al <= 0 /\ Fe > 0 THEN Al * (-1)
                  ELSE IF Al <= 0 /\ Fe <= 0 THEN nfe3
                  ELSE 0
        Tet == nsi + nti + np + al_tet + fe_tet
    IN  IF fe_bound
        THEN [out |-> "return", exc |-> "", bound |-> {"al_tet", "fe_tet"},
              al_tet |-> al_tet, fe_tet |-> fe_tet, val |-> 2 * o - 4 * Tet]
        ELSE [out |-> "raise", exc |-> "UnboundLocalError", bound |-> {"al_tet"},
              al_tet |-> al_tet, fe_tet |-> 0, val |-> 0]

(* The forward law: the dissolved CO2 weight fraction, a function of       *)
(* fCO2, the melt composition at fO2 and P, T and the formula weight.      *)
(* exp(ln 0) is 0, so both mole fractions and the sum are 0 at fCO2 = 0;   *)
(* ln of a negative number is nan.                                         *)
eguchi2018(fCO2, k, T, P) ==
    IF IsNaN(fCO2) \/ fCO2.s < 0 THEN NaN
    ELSE IF fCO2.s = 0 THEN Zero
    ELSE Atom("eguchi2018:" \o ToString(<<fCO2.e, IronFraction(k, P), T, P>>))

(* The closed-form graphite buffer, as log10: logK1 + log10(fO2).          *)
logK1(T, P) ==
    RAdd(RAdd(RSub(Rat(4007639, 100000), RMul(Rat(253932, 10000000), <<T, 1>>)),
              RMul(Rat(527096, 100000), Rat(T * T, 1000000))),
         RMul(Rat(267, 10000), Rat(P - 1, T)))

graphite_fco2(T, P, k) == Mul(Ten(logK1(T, P)), FO2(k))

(* A variant of co2_melt whose eguchi2018 branch clears graphite_sat.      *)
M_co2_melt(fCO2, CO2, k, T, P, melt, name) ==
    IF name = "burguisser2015"
    THEN Return(Div(burguisser2015_co2(fCO2, CO2), MolarMass("co2")),
                {"burguisser2015_co2"}, melt, {})
    ELSE IF name = "eguchi2018"
    THEN Return(Div(eguchi2018(fCO2, k, T, P), MolarMass("co2")),
                {"eguchi2018"}, [melt EXCEPT !.graphite_sat = FALSE],
                {"graphite_sat"})
    ELSE Return(PyNone, {}, melt, {})

(* Variants of eguchi2018_fugacity: one that caps at the buffer itself     *)
(* (>= for >), one that sets the flag under saturation and never clears it.*)
M_eguchi2018_fugacity_ge(root, k, T, P, melt) ==
    IF ~IsNaN(root) /\ ~Gt(graphite_fco2(T, P, k), root)
    THEN Return(graphite_fco2(T, P, k), {"eguchi2018"},
                [melt EXCEPT !.graphite_sat = TRUE], {"graphite_sat"})
    ELSE Return(root, {"eguchi2018"},
                [melt EXCEPT !.graphite_sat = FALSE], {"graphite_sat"})

M_eguchi2018_fugacity_sticky(root, k, T, P, melt) ==
    IF ~IsNaN(root) /\ Gt(root, graphite_fco2(T, P, k))
    THEN Return(graphite_fco2(T, P, k), {"eguchi2018"},
                [melt EXCEPT !.graphite_sat = TRUE], {"graphite_sat"})
    ELSE Return(root, {"eguchi2018"}, melt, {})

(* root is what fsolve(f, 1.0, ...)[0] returned.  A nan compares false.    *)
eguchi2018_fugacity(root, k, T, P, melt) ==
    LET fCO2 == root
        graph_fco2 == graphite_fco2(T, P, k)
    IN  IF ~IsNaN(fCO2) /\ Gt(fCO2, graph_fco2)
        THEN Return(graph_fco2, {"eguchi2018"},
                    [melt EXCEPT !.graphite_sat = TRUE], {"graphite_sat"})
        ELSE Return(fCO2, {"eguchi2018"},
                    [melt EXCEPT !.graphite_sat = FALSE], {"graphite_sat"})

----------------------------------------------------------------------------
(* N2: Libourel et al. (2003).                                             *)

c_atm == Num(986923, 1000000)

libourel2003(mN2, k, P) ==
    LET pn2 == Mul(Mul(Num(P, 1), c_atm), mN2)
        lin == Mul(Mul(Num(611, 1), Ten(<<-10, 1>>)), pn2)
        sqr == Mul(Mul(Mul(Num(597, 1), Ten(<<-18, 1>>)),
                       Pow(FO2(k), Rat(-75, 100))),
                   Pow(pn2, Rat(1, 2)))
    IN  IF pn2.s = 0 THEN Zero ELSE Add(lin, sqr)

(* The tail of libourel2003_fugacity, once n_quadratic has a root PN2.     *)
fn2_of(PN2, nY, P) ==
    LET mN2 == Div(PN2, Mul(Num(P, 1), c_atm))
    IN  Mul(Mul(nY, mN2), Num(P, 1))

----------------------------------------------------------------------------
(* Sulfur.                                                                 *)

nash2019(k, P, T, run) ==
    LET F == Mul(Num(2, 1), fo2_2F(Cm, T, P * 100000, k, run.FO2_MODEL))
        c == RAdd(RSub(Rat(8743600, T * T), Rat(27703, T)), Rat(20273, 1000))
    IN  Mul(Pow(F, <<8, 1>>), Ten(c))

oneill2002(k, P) ==
    Atom("oneill2002:" \o ToString(IronFraction(k, P)))

(* oneill2020 takes the melt's cm_dry dict itself (or, when that is empty, *)
(* the new dict of melt.Cm()) and folds Fe2O3 into FeO in it, in place.    *)
(* The capacity is a function of T and of the folded composition.          *)
Fold(c) ==
    IF c.fe2o3 > 0
    THEN [c EXCEPT !.feo = c.feo + (c.fe2o3 * 8998) \div 10000, !.fe2o3 = 0]
    ELSE c

(* A variant of oneill2020 that takes melt.Cm() whatever cm_dry holds.     *)
M_oneill2020(T, melt) ==
    [capacity |-> Atom("oneill2020:" \o ToString(<<T, Fold(Cm)>>)),
     melt |-> melt]

(* A variant of oneill2020 whose fold leaves comp["fe2o3"] as it was.      *)
M_oneill2020_keeps(T, melt) ==
    LET aliased == ~melt.cm_dry.empty
        comp == IF aliased
                THEN [feo |-> melt.cm_dry.feo, fe2o3 |-> melt.cm_dry.fe2o3]
                ELSE Cm
        f == [comp EXCEPT !.feo = comp.feo + (comp.fe2o3 * 8998) \div 10000]
    IN  [capacity |-> Atom("oneill2020:" \o ToString(<<T, f>>)),
         melt |-> IF aliased
                  THEN [melt EXCEPT !.cm_dry.feo = f.feo]
                  ELSE melt]

oneill2020(T, melt) ==
    LET aliased == ~melt.cm_dry.empty
        comp == IF aliased
                THEN [feo |-> melt.cm_dry.feo, fe2o3 |-> melt.cm_dry.fe2o3]
                ELSE Cm
        f == Fold(comp)
    IN  [capacity |-> Atom("oneill2020:" \o ToString(<<T, f>>)),
         melt |-> IF aliased
                  THEN [melt EXCEPT !.cm_dry.feo = f.feo, !.cm_dry.fe2o3 = f.fe2o3]
                  ELSE melt]

----------------------------------------------------------------------------
(* Melt content model selection.  A function whose if/elif chain matches   *)
(* no branch falls off its end and returns None.                           *)

ch4_melt(fCH4, P, name, melt) ==
    IF name = "ardia2013"
    THEN Return(Div(ardia2013(fCH4, P), MolarMass("ch4")), {"ardia2013"}, melt, {})
    ELSE IF name = "None" THEN Return(Zero, {}, melt, {})
    ELSE Return(PyNone, {}, melt, {})

co_melt(fCO, P, name, melt) ==
    IF name = "armstrong2015"
    THEN Return(Div(armstrong2015(fCO, P), MolarMass("co")), {"armstrong2015"}, melt, {})
    ELSE IF name = "None" THEN Return(Zero, {}, melt, {})
    ELSE Return(PyNone, {}, melt, {})

co2_melt(fCO2, CO2, k, T, P, melt, name) ==
    IF name = "burguisser2015"
    THEN Return(Div(burguisser2015_co2(fCO2, CO2), MolarMass("co2")),
                {"burguisser2015_co2"}, melt, {})
    ELSE IF name = "eguchi2018"
    THEN Return(Div(eguchi2018(fCO2, k, T, P), MolarMass("co2")),
                {"eguchi2018"}, melt, {})
    ELSE Return(PyNone, {}, melt, {})

h2_melt(mH2, H2, P, melt, name, Y) ==
    IF name = "burguisser2015"
    THEN Return(Div(burguisser2015_h2(mH2, H2, P, Y), MolarMass("h2")),
                {"burguisser2015_h2"}, melt, {})
    ELSE IF name = "gaillard2003"
    THEN Return(Div(gaillard2003_h2(mH2, H2, P, Y), MolarMass("h2")),
                {"gaillard2003_h2"}, melt, {})
    ELSE Return(PyNone, {}, melt, {})

h2o_melt(mH2O, H2O, P, name, Y, melt) ==
    IF name = "burguisser2015"
    THEN Return(Div(burguisser2015_h2o(mH2O, H2O, P, Y), MolarMass("h2o")),
                {"burguisser2015_h2o"}, melt, {})
    ELSE Return(PyNone, {}, melt, {})

n_melt(mN2, k, P, name, melt) ==
    IF name = "libourel2003"
    THEN Return(Div(libourel2003(mN2, k, P), MolarMass("n")), {"libourel2003"}, melt, {})
    ELSE Return(PyNone, {}, melt, {})

(* With neither capacity law selected, `capacity` is unbound at the return *)
(* statement: Python raises UnboundLocalError.                             *)
sulfide_melt(fS2, k, P, T, melt, name) ==
    IF name = "oneill2002"
    THEN Return(Div(Mul(oneill2002(k, P), Pow(Div(fS2, FO2(k)), Rat(5, 10))),
                    MolarMass("s")),
                {"oneill2002"}, melt, {})
    ELSE IF name = "oneill2020"
    THEN LET c == oneill2020(T, melt)
         IN  Return(Div(Mul(c.capacity, Pow(Div(fS2, FO2(k)), Rat(5, 10))),
                        MolarMass("s")),
                    {"oneill2020"}, c.melt, {})
    ELSE Raise("UnboundLocalError", {}, melt, {})

(* A variant of sulfate_melt that takes sulfide_melt's default law         *)
(* instead of run.SULFIDE_CAPACITY.                                        *)
M_sulfate_melt(fS2, k, P, T, melt, run, name) ==
    IF name = "nash2019"
    THEN LET sd == sulfide_melt(fS2, k, P, T, melt, "oneill2020")
         IN  Return(Mul(nash2019(k, P, T, run), sd.val),
                    {"nash2019"} \cup sd.laws, sd.melt, sd.writes)
    ELSE Return(PyNone, {}, melt, {})

sulfate_melt(fS2, k, P, T, melt, run, name) ==
    IF name = "nash2019"
    THEN LET ratio == nash2019(k, P, T, run)
             sd == sulfide_melt(fS2, k, P, T, melt, run.SULFIDE_CAPACITY)
         IN  IF sd.out = "raise"
             THEN Raise(sd.exc, {"nash2019"} \cup sd.laws, sd.melt, sd.writes)
             ELSE Return(Mul(ratio, sd.val), {"nash2019"} \cup sd.laws,
                         sd.melt, sd.writes)
    ELSE Return(PyNone, {}, melt, {})

----------------------------------------------------------------------------
(* Fugacity model selection.                                               *)

(* A variant of ch4_fugacity that evaluates the law for "None" too.        *)
M_ch4_fugacity(melt_ch4, P, name, melt) ==
    IF name \in {"ardia2013", "None"}
    THEN Return(ardia2013_fugacity(melt_ch4, P), {"ardia2013_fugacity"}, melt, {})
    ELSE Return(PyNone, {}, melt, {})

ch4_fugacity(melt_ch4, P, name, melt) ==
    IF name = "ardia2013"
    THEN Return(ardia2013_fugacity(melt_ch4, P), {"ardia2013_fugacity"}, melt, {})
    ELSE IF name = "None" THEN Return(Zero, {}, melt, {})
    ELSE Return(PyNone, {}, melt, {})

co_fugacity(melt_co, P, name, melt) ==
    IF name = "armstrong2015"
    THEN Return(armstrong2015_fugacity(melt_co, P), {"armstrong2015_fugacity"}, melt, {})
    ELSE IF name = "None" THEN Return(Zero, {}, melt, {})
    ELSE Return(PyNone, {}, melt, {})

(* root: what the root search of eguchi2018_fugacity returns for melt_co2. *)
co2_fugacity(melt_co2, CO2, k, T, P, melt, name, root) ==
    IF name = "burguisser2015"
    THEN Return(burguisser2015_co2_fugacity(melt_co2, CO2),
                {"burguisser2015_co2_fugacity"}, melt, {})
    ELSE IF name = "eguchi2018"
    THEN eguchi2018_fugacity(root, k, T, P, melt)
    ELSE Return(PyNone, {}, melt, {})

h2_fugacity(melt_h2, H2, melt, name) ==
    IF name = "burguisser2015"
    THEN Return(burguisser2015_h2_fugacity(melt_h2, H2),
                {"burguisser2015_h2_fugacity"}, melt, {})
    ELSE IF name = "gaillard2003"
    THEN Return(gaillard2003_h2_fugacity(melt_h2),
                {"gaillard2003_h2_fugacity"}, melt, {})
    ELSE Return(PyNone, {}, melt, {})

h2o_fugacity(melt_h2o, H2O, name, melt) ==
    IF name = "burguisser2015"
    THEN Return(burguisser2015_h2o_fugacity(melt_h2o, H2O),
                {"burguisser2015_h2o_fugacity"}, melt, {})
    ELSE Return(PyNone, {}, melt, {})

(* S2_fugacity binds melt.cm_dry to the new dict iron_fraction returns     *)
(* (newref names it), then evaluates the ratio and the capacity.  Its      *)
(* return statement is inside the sulfatename branch.                      *)

(* A variant of S2_bind that keeps a dict already cached.                  *)
M_S2_bind(k, P, melt, newref) ==
    IF melt.cm_dry.empty
    THEN [melt EXCEPT !.cm_dry = [ref |-> newref, empty |-> FALSE,
                                  feo |-> IronFraction(k, P).feo,
                                  fe2o3 |-> IronFraction(k, P).fe2o3]]
    ELSE melt

(* melt.cm_dry = melt.iron_fraction(np.log(fO2), ppa=P * 1e5)[0]           *)
S2_bind(k, P, melt, newref) ==
    LET c0 == IronFraction(k, P)
    IN  [melt EXCEPT !.cm_dry = [ref |-> newref, empty |-> FALSE,
                                 feo |-> c0.feo, fe2o3 |-> c0.fe2o3]]

(* The statements after the assignment, on the melt m1 they find.          *)
S2_rest(s_melt, k, P, T, m1, run, sulfidename) ==
    LET ratio == nash2019(k, P, T, run)
        s2_melt == Mul(s_melt, Div(One, OnePlus(ratio)))
    IN  IF sulfidename = "oneill2002"
        THEN Return(Mul(Pow(Div(s2_melt, oneill2002(k, P)), <<2, 1>>), FO2(k)),
                    {"nash2019", "oneill2002"}, m1, {"cm_dry"})
        ELSE IF sulfidename = "oneill2020"
        THEN LET c == oneill2020(T, m1)
             IN  Return(Mul(Pow(Div(s2_melt, c.capacity), <<2, 1>>), FO2(k)),
                        {"nash2019", "oneill2020"}, c.melt, {"cm_dry"})
        ELSE Raise("UnboundLocalError", {"nash2019"}, m1, {"cm_dry"})

(* A variant of S2_fugacity that evaluates the capacity on the melt as it  *)
(* finds it and assigns cm_dry afterwards.                                 *)
M_S2_fugacity(s_melt, k, P, T, melt, run, sulfidename, sulfatename, newref) ==
    IF sulfatename = "nash2019"
    THEN LET r == S2_rest(s_melt, k, P, T, melt, run, sulfidename)
         IN  [r EXCEPT !.melt = S2_bind(k, P, r.melt, newref)]
    ELSE Return(PyNone, {}, melt, {})

S2_fugacity(s_melt, k, P, T, melt, run, sulfidename, sulfatename, newref) ==
    IF sulfatename = "nash2019"
    THEN S2_rest(s_melt, k, P, T, S2_bind(k, P, melt, newref), run, sulfidename)
    ELSE Return(PyNone, {}, melt, {})

----------------------------------------------------------------------------
(* The inputs the integrator is modelled to pass.                          *)

FugDecades == 1
PressSteps == 1
DictNames == 2

RECURSIVE TenTo(_)
TenTo(n) == IF n = 0 THEN 1 ELSE 10 * TenTo(n - 1)

(* Fugacities, mole fractions and melt contents: 1/2, 5, 50, ... and the   *)
(* non-positive 0 and -1.                                                  *)
PosInputs == {Num(1, 2)} \cup {Num(5 * TenTo(d - 1), 1) : d \in 1..FugDecades}
Inputs == PosInputs \cup {Zero, Neg(One)}

(* Pressures (bar): 100, 10000, ... and the non-positive 0 and -100.       *)
PosPress == {TenTo(2 * i) : i \in 1..PressSteps}
Press == PosPress \cup {0, -100}

Temps == {1000, 2000}
FO2Exps == {8, 12}

(* The value `name` is bound to when a call leaves it out: the default of  *)
(* the function's def line (for S2_fugacity, of sulfidename).              *)
DefaultName(fn) ==
    CASE fn = "ch4_melt" -> "ardia2013"
      [] fn = "co_melt" -> "armstrong2015"
      [] fn = "co2_melt" -> "burguisser2015"
      [] fn = "h2_melt" -> "gaillard2003"
      [] fn = "h2o_melt" -> "burguisser2015"
      [] fn = "n_melt" -> "libourel2003"
      [] fn = "sulfate_melt" -> "nash2019"
      [] fn = "sulfide_melt" -> "oneill2020"
      [] fn = "ch4_fugacity" -> "ardia2013"
      [] fn = "co_fugacity" -> "armstrong2015"
      [] fn = "co2_fugacity" -> "burguisser2015"
      [] fn = "h2_fugacity" -> "burguisser2015"
      [] fn = "h2o_fugacity" -> "burguisser2015"
      [] fn = "n2_fugacity" -> "libourel2003"
      [] fn = "S2_fugacity" -> "oneill2020"

(* The default of S2_fugacity's sulfatename.                               *)
DefaultSulfate == "nash2019"

(* The law names a dispatch function is called with: its default (the name *)
(* left out), the other ones it supports, and names it may or may not      *)
(* support.                                                                *)
NamesFor(fn, supported) ==
    {DefaultName(fn)} \cup supported \cup {"None", "burguisser2015", "dixon1997"}

Molecules == {Molecule(Ten(<<-4, 1>>), Rat(7, 10), One),
              Molecule(Ten(<<-4, 1>>), Rat(1, 2), Num(2, 1))}
Overrides == {PyNone, Num(3, 1), Zero}

DefaultCtx ==
    [P |-> 100, T |-> 1000, k |-> 8, mol |-> Molecule(One, ROne, One),
     Y |-> PyNone, cap |-> "", name2 |-> "", root |-> PyNone, ier |-> 1]

(* call: the last call and what it did.  fn, name, x (the fugacity, mole   *)
(* fraction or melt content passed), ctx (the other arguments), res (its   *)
(* Return or Raise), pre (the melt before it), src and fwd_x (where x came *)
(* from; fwd_name is the law name of the call x came from and fwd_pre the  *)
(* melt before that call), seeds (the attempts of the N2 solver).  ctx.root is what the     *)
(* root search of the call returned.                                       *)
NoCall ==
    [fn |-> "", name |-> "", x |-> PyNone, ctx |-> DefaultCtx, src |-> "",
     fwd_x |-> PyNone, fwd_name |-> "", fwd_pre |-> Melt(FALSE, EmptyDict),
     res |-> Return(PyNone, {}, Melt(FALSE, EmptyDict), {}),
     pre |-> Melt(FALSE, EmptyDict), seeds |-> <<>>]

Idle == [pc |-> "idle", x |-> PyNone, ctx |-> DefaultCtx, tol |-> 0,
         flag |-> 0, seeds |-> <<>>, PN2 |-> PyNone]

TheMelt == Melt(graphite_sat, cm_dry)

(* The previous call was `fwd` and returned a number.                      *)
Chained(fwd) ==
    call.fn = fwd /\ call.res.out = "return" /\ call.res.val.s \in {-1, 0, 1}

(* A call with arguments of its own is made when the caller holds no       *)
(* result of an earlier call: Fresh(S) is then the set S it draws from.    *)
Fresh(S) == IF call = NoCall /\ n2.pc = "idle" THEN S ELSE {}

(* A call that runs to its end in one step.  A call is given arguments of  *)
(* its own (src = "new") or is chained to the call before it.              *)
Completes(fn, name, x, src, fwd_x, ctx, res) ==
    /\ n2.pc = "idle"
    /\ src = "new" => call = NoCall
    /\ call' = [fn |-> fn, name |-> name, x |-> x, ctx |-> ctx, src |-> src,
                fwd_x |-> fwd_x,
                fwd_name |-> IF src = "new" THEN "" ELSE call.name,
                fwd_pre |-> IF src = "new" THEN NoCall.pre ELSE call.pre,
                res |-> res, pre |-> TheMelt, seeds |-> <<>>]
    /\ graphite_sat' = res.melt.graphite_sat
    /\ cm_dry' = res.melt.cm_dry
    /\ n2' = n2
    /\ UNCHANGED <<parvars, nbovars>>

(* The caller is done with what the last call returned.                    *)
Forget ==
    /\ n2.pc = "idle"
    /\ call # NoCall
    /\ call' = NoCall
    /\ UNCHANGED <<graphite_sat, cm_dry, n2>>
    /\ UNCHANGED <<parvars, nbovars>>

----------------------------------------------------------------------------
(* The calls of the melt content functions.                                *)

Call_ch4_melt ==
    \E x \in Fresh(Inputs), P \in Press, name \in NamesFor("ch4_melt", {"ardia2013"}) :
        Completes("ch4_melt", name, x, "new", PyNone,
                  [DefaultCtx EXCEPT !.P = P],
                  ch4_melt(x, P, name, TheMelt))

Call_co_melt ==
    \E x \in Fresh(Inputs), P \in Press, name \in NamesFor("co_melt", {"armstrong2015"}) :
        Completes("co_melt", name, x, "new", PyNone,
                  [DefaultCtx EXCEPT !.P = P],
                  co_melt(x, P, name, TheMelt))

Call_co2_melt ==
    \E x \in Fresh(Inputs), CO2 \in Molecules, k \in FO2Exps, T \in Temps,
       P \in PosPress, name \in NamesFor("co2_melt", {"eguchi2018"}) :
        Completes("co2_melt", name, x, "new", PyNone,
                  [DefaultCtx EXCEPT !.P = P, !.T = T, !.k = k, !.mol = CO2],
                  co2_melt(x, CO2, k, T, P, TheMelt, name))

Call_h2_melt ==
    \E x \in Fresh(Inputs), H2 \in Molecules, P \in PosPress,
       name \in NamesFor("h2_melt", {"gaillard2003"}), Y \in Overrides :
        Completes("h2_melt", name, x, "new", PyNone,
                  [DefaultCtx EXCEPT !.P = P, !.mol = H2, !.Y = Y],
                  h2_melt(x, H2, P, TheMelt, name, Y))

Call_h2o_melt ==
    \E x \in Fresh(Inputs), H2O \in Molecules, P \in PosPress,
       name \in NamesFor("h2o_melt", {}), Y \in Overrides :
        Completes("h2o_melt", name, x, "new", PyNone,
                  [DefaultCtx EXCEPT !.P = P, !.mol = H2O, !.Y = Y],
                  h2o_melt(x, H2O, P, name, Y, TheMelt))

Call_n_melt ==
    \E x \in Fresh(Inputs), k \in FO2Exps, P \in PosPress,
       name \in NamesFor("n_melt", {"libourel2003"}) :
        Completes("n_melt", name, x, "new", PyNone,
                  [DefaultCtx EXCEPT !.P = P, !.k = k],
                  n_melt(x, k, P, name, TheMelt))

(* fS2 is a value of its own or the one S2_fugacity just returned; then    *)
(* the call is made at the conditions of that S2_fugacity call.            *)
SulfurArgs ==
    {[src |-> "new", x |-> x, fwd_x |-> PyNone,
      ctx |-> [DefaultCtx EXCEPT !.P = P, !.T = T, !.k = k, !.cap = cap]] :
         x \in Fresh(PosInputs), P \in PosPress, T \in Temps, k \in FO2Exps,
         cap \in {"oneill2002", "oneill2020", "dixon1997"}}
      \cup (IF Chained("S2_fugacity")
            THEN {[src |-> "raw", x |-> call.res.val, fwd_x |-> call.x,
                   ctx |-> call.ctx]}
            ELSE {})

Call_sulfide_melt ==
    \E a \in SulfurArgs :
        Completes("sulfide_melt", a.ctx.cap, a.x, a.src, a.fwd_x, a.ctx,
                  sulfide_melt(a.x, a.ctx.k, a.ctx.P, a.ctx.T, TheMelt, a.ctx.cap))

Call_sulfate_melt ==
    \E a \in SulfurArgs, name \in {"nash2019", "None", "dixon1997"} :
        Completes("sulfate_melt", name, a.x, a.src, a.fwd_x,
                  [a.ctx EXCEPT !.name2 = name],
                  sulfate_melt(a.x, a.ctx.k, a.ctx.P, a.ctx.T, TheMelt,
                               RunDef(a.ctx.cap), name))

----------------------------------------------------------------------------
(* The calls of the fugacity functions.  The melt content is a value of    *)
(* its own ("new") or what the matching X_melt call just returned, as      *)
(* returned ("raw") or multiplied by the species' molar mass ("wt"); a     *)
(* chained call is made with the species object and the conditions of the  *)
(* X_melt call.                                                            *)

FugacityArgs(fwd, sp, ctxs) ==
    {[src |-> "new", x |-> x, fwd_x |-> PyNone, ctx |-> c] :
         x \in Fresh(Inputs), c \in ctxs}
      \cup (IF Chained(fwd)
            THEN {[src |-> "raw", x |-> call.res.val, fwd_x |-> call.x,
                   ctx |-> call.ctx],
                  [src |-> "wt", x |-> Mul(call.res.val, MolarMass(sp)),
                   fwd_x |-> call.x, ctx |-> call.ctx]}
            ELSE {})

Call_ch4_fugacity ==
    \E a \in FugacityArgs("ch4_melt", "ch4",
                          {[DefaultCtx EXCEPT !.P = P] : P \in Press}),
       name \in NamesFor("ch4_fugacity", {"ardia2013"}) :
        Completes("ch4_fugacity", name, a.x, a.src, a.fwd_x, a.ctx,
                  ch4_fugacity(a.x, a.ctx.P, name, TheMelt))

Call_co_fugacity ==
    \E a \in FugacityArgs("co_melt", "co",
                          {[DefaultCtx EXCEPT !.P = P] : P \in Press}),
       name \in NamesFor("co_fugacity", {"armstrong2015"}) :
        Completes("co_fugacity", name, a.x, a.src, a.fwd_x, a.ctx,
                  co_fugacity(a.x, a.ctx.P, name, TheMelt))

(* What the root search of eguchi2018_fugacity may return: a fugacity      *)
(* below, at or above the graphite buffer, or nan.                         *)
Roots(T, P, k) ==
    LET g == graphite_fco2(T, P, k)
    IN  {Div(g, Ten(ROne)), g, Mul(g, Ten(ROne)), NaN}

(* The runs of fsolve(f, 1.0, ...): the value [0] and the solver's status  *)
(* ier (1: a root was found; 5: the iteration made no progress, of which   *)
(* fsolve warns).  The engine takes [0] and never reads ier.               *)
FsolveRuns(T, P, k) ==
    {[root |-> r, ier |-> 1] : r \in Roots(T, P, k) \ {NaN}}
      \cup {[root |-> r, ier |-> 5] :
                r \in {Mul(graphite_fco2(T, P, k), Ten(ROne)), NaN}}

Call_co2_fugacity ==
    \E a \in FugacityArgs("co2_melt", "co2",
                          {[DefaultCtx EXCEPT !.P = P, !.T = T, !.k = k, !.mol = CO2] :
                               P \in PosPress, T \in Temps, k \in FO2Exps,
                               CO2 \in Molecules}),
       name \in NamesFor("co2_fugacity", {"eguchi2018"}) :
        \E run \in IF name = "eguchi2018"
                   THEN FsolveRuns(a.ctx.T, a.ctx.P, a.ctx.k)
                   ELSE {[root |-> PyNone, ier |-> 1]} :
            Completes("co2_fugacity", name, a.x, a.src, a.fwd_x,
                      [a.ctx EXCEPT !.root = run.root, !.ier = run.ier],
                      co2_fugacity(a.x, a.ctx.mol, a.ctx.k, a.ctx.T, a.ctx.P,
                                   TheMelt, name, run.root))

Call_h2_fugacity ==
    \E a \in FugacityArgs("h2_melt", "h2",
                          {[DefaultCtx EXCEPT !.mol = H2] : H2 \in Molecules}),
       name \in NamesFor("h2_fugacity", {"gaillard2003"}) :
        Completes("h2_fugacity", name, a.x, a.src, a.fwd_x, a.ctx,
                  h2_fugacity(a.x, a.ctx.mol, TheMelt, name))

Call_h2o_fugacity ==
    \E a \in FugacityArgs("h2o_melt", "h2o",
                          {[DefaultCtx EXCEPT !.mol = H2O] : H2O \in Molecules}),
       name \in NamesFor("h2o_fugacity", {}) :
        Completes("h2o_fugacity", name, a.x, a.src, a.fwd_x, a.ctx,
                  h2o_fugacity(a.x, a.ctx.mol, name, TheMelt))

(* The dict iron_fraction returns is a new object: it is named by a        *)
(* reference other than the one melt.cm_dry holds.                         *)
NewRef == CHOOSE r \in 1..DictNames : r # cm_dry.ref

Call_S2_fugacity ==
    \E x \in Fresh(PosInputs), P \in PosPress, T \in Temps, k \in FO2Exps,
       sulfidename \in {DefaultName("S2_fugacity"), "oneill2002", "dixon1997"},
       sulfatename \in {DefaultSulfate, "None", "dixon1997"} :
        Completes("S2_fugacity", sulfidename, x, "new", PyNone,
                  [DefaultCtx EXCEPT !.P = P, !.T = T, !.k = k,
                                     !.cap = sulfidename, !.name2 = sulfatename],
                  S2_fugacity(x, k, P, T, TheMelt, RunDef(sulfidename),
                              sulfidename, sulfatename, NewRef))

----------------------------------------------------------------------------
(* n2_fugacity.  libourel2003_fugacity starts the solver from seed 1 and,  *)
(* when that attempt ends in a RuntimeWarning, from the seeds of a ladder: *)
(* tol = 1e-10, divided by 10 after each failed attempt while              *)
(* tol >= 1e-17, and one last attempt below that.  n2 is the call in       *)
(* progress: pc, its arguments, flag, the root PN2, tol as the decade d of  *)
(* 10^-d, and seeds, the attempts made so far: <<d, "ok">> for a solver    *)
(* run started from 10^-d that returned, <<d, "warn">> for one that ended  *)
(* in a RuntimeWarning (seed 1 is d = 0).                                  *)
(* In IEEE doubles 1e-10 divided by 10 seven times is exactly 1e-17.       *)

FirstTol == 10
LastTol == 17

(* Variants of the ladder's test that stop it five decades early, and one  *)
(* decade late.                                                            *)
M_InLadder_early(tol) == tol <= LastTol - 5
M_InLadder_late(tol) == tol <= LastTol + 1

(* A variant of NextTol that drops two decades.                            *)
M_NextTol(tol) == tol + 2

(* tol/=10 *)
NextTol(tol) == tol + 1

(* if (tol >= 1e-17): the seed 10^-tol is still on the ladder.             *)
InLadder(tol) == tol <= LastTol

(* The points x a solver run may end at, f0 evaluated there.               *)
N2Roots == {Zero, One, Neg(One)}

(* A variant of f0_warns: no warning for a negative x.                     *)
M_f0_warns(x) == FALSE

(* f0(x) = a * x + b * fO2 ** (-0.75) * (x ** 0.5) - n_melt, under         *)
(* warnings.filterwarnings("error"): x ** 0.5 of a negative x is nan with  *)
(* a RuntimeWarning, raised as an exception.                               *)
f0_warns(x) == x.s < 0

(* A solver run from a seed ends at x without a RuntimeWarning: it has     *)
(* converged (else fsolve warns) and f0 raised none at x.                  *)
SolverOk(x, converged) == converged /\ ~f0_warns(x)

(* The arguments of an n2_fugacity call: N2Y is the fugacity coefficient   *)
(* of N2 the caller passes.                                                *)
N2Ctx(c) == [c EXCEPT !.Y = Num(2, 1)]

Call_n2_fugacity ==
    \E a \in FugacityArgs("n_melt", "n",
                          {[DefaultCtx EXCEPT !.P = P, !.k = k] :
                               P \in PosPress, k \in FO2Exps}),
       name \in NamesFor("n2_fugacity", {"libourel2003"}) :
        /\ n2.pc = "idle"
        /\ a.src = "new" => call = NoCall
        /\ IF name = "libourel2003"
           THEN /\ n2' = [pc |-> "seed1", x |-> a.x, ctx |-> N2Ctx(a.ctx), tol |-> 0,
                          flag |-> 0, seeds |-> <<>>, PN2 |-> PyNone]
                /\ call' = [NoCall EXCEPT !.fn = "n2_fugacity", !.name = name,
                                          !.x = a.x, !.ctx = N2Ctx(a.ctx), !.src = a.src,
                                          !.fwd_x = a.fwd_x, !.pre = TheMelt,
                                          !.fwd_name = IF a.src = "new" THEN ""
                                                       ELSE call.name,
                                          !.fwd_pre = IF a.src = "new"
                                                      THEN NoCall.pre
                                                      ELSE call.pre,
                                          !.res.out = "running",
                                          !.res.melt = TheMelt]
           ELSE /\ n2' = n2
                /\ call' = [fn |-> "n2_fugacity", name |-> name, x |-> a.x,
                            ctx |-> N2Ctx(a.ctx), src |-> a.src, fwd_x |-> a.fwd_x,
                            fwd_name |-> IF a.src = "new" THEN "" ELSE call.name,
                            fwd_pre |-> IF a.src = "new" THEN NoCall.pre
                                        ELSE call.pre,
                            res |-> Return(PyNone, {}, TheMelt, {}),
                            pre |-> TheMelt, seeds |-> <<>>]
        /\ UNCHANGED <<graphite_sat, cm_dry>>
        /\ UNCHANGED <<parvars, nbovars>>

(* try: PN2 = fsolve(f0, 1)[0]   except RuntimeWarning: tol = 1e-10 ...    *)
N2_seed1 ==
    /\ n2.pc = "seed1"
    /\ \E r \in N2Roots, converged \in BOOLEAN :
          IF SolverOk(r, converged)
          THEN n2' = [n2 EXCEPT !.pc = "return", !.PN2 = r,
                                !.seeds = Append(@, <<0, "ok">>)]
          ELSE n2' = [n2 EXCEPT !.pc = "loop", !.tol = FirstTol, !.flag = 0,
                                !.seeds = Append(@, <<0, "warn">>)]
    /\ UNCHANGED <<graphite_sat, cm_dry, call>>
    /\ UNCHANGED <<parvars, nbovars>>

(* One pass of while (flag != 1).                                          *)
N2_ladder ==
    /\ n2.pc = "loop"
    /\ n2.flag # 1
    /\ \E r \in N2Roots, converged \in BOOLEAN :
          IF InLadder(n2.tol)
          THEN IF SolverOk(r, converged)
               THEN n2' = [n2 EXCEPT !.PN2 = r, !.flag = 1,
                                     !.seeds = Append(@, <<n2.tol, "ok">>)]
               ELSE n2' = [n2 EXCEPT !.tol = NextTol(@),
                                     !.seeds = Append(@, <<n2.tol, "warn">>)]
          ELSE IF SolverOk(r, converged)
               THEN n2' = [n2 EXCEPT !.PN2 = r, !.flag = 1,
                                     !.seeds = Append(@, <<n2.tol, "ok">>)]
               ELSE n2' = [n2 EXCEPT !.pc = "raise",
                                     !.seeds = Append(@, <<n2.tol, "warn">>)]
    /\ UNCHANGED <<graphite_sat, cm_dry, call>>
    /\ UNCHANGED <<parvars, nbovars>>

(* The call ends: return nY * mN2 * P, or RuntimeError out of the ladder.  *)
N2_end ==
    /\ \/ n2.pc = "return"
       \/ n2.pc = "loop" /\ n2.flag = 1
       \/ n2.pc = "raise"
    /\ call' = [call EXCEPT
                  !.seeds = n2.seeds,
                  !.ctx.root = n2.PN2,
                  !.res = IF n2.pc = "raise"
                          THEN Raise("RuntimeError", {"libourel2003_fugacity"},
                                     TheMelt, {})
                          ELSE Return(fn2_of(n2.PN2, n2.ctx.Y, n2.ctx.P),
                                      {"libourel2003_fugacity"}, TheMelt, {})]
    /\ n2' = Idle
    /\ UNCHANGED <<graphite_sat, cm_dry>>
    /\ UNCHANGED <<parvars, nbovars>>

----------------------------------------------------------------------------
(* The law functions called directly, a forward law and then its inverse   *)
(* on what the forward law returned.                                       *)

ForwardLaws == {"ardia2013", "armstrong2015", "burguisser2015_co2",
                "burguisser2015_h2", "burguisser2015_h2o", "gaillard2003_h2"}

(* The forward laws: these and eguchi2018, whose inverse is a root search. *)
LawFns == ForwardLaws \cup {"eguchi2018"}

ApplyLaw(law, x, c) ==
    CASE law = "ardia2013" -> ardia2013(x, c.P)
      [] law = "eguchi2018" -> eguchi2018(x, c.k, c.T, c.P)
      [] law = "armstrong2015" -> armstrong2015(x, c.P)
      [] law = "burguisser2015_co2" -> burguisser2015_co2(x, c.mol)
      [] law = "burguisser2015_h2" -> burguisser2015_h2(x, c.mol, c.P, c.Y)
      [] law = "burguisser2015_h2o" -> burguisser2015_h2o(x, c.mol, c.P, c.Y)
      [] law = "gaillard2003_h2" -> gaillard2003_h2(x, c.mol, c.P, c.Y)

ApplyInverse(law, w, c) ==
    CASE law = "ardia2013" -> ardia2013_fugacity(w, c.P)
      [] law = "armstrong2015" -> armstrong2015_fugacity(w, c.P)
      [] law = "burguisser2015_co2" -> burguisser2015_co2_fugacity(w, c.mol)
      [] law = "burguisser2015_h2" -> burguisser2015_h2_fugacity(w, c.mol)
      [] law = "burguisser2015_h2o" -> burguisser2015_h2o_fugacity(w, c.mol)
      [] law = "gaillard2003_h2" -> gaillard2003_h2_fugacity(w)

(* The pressures the laws are called at: those of the dispatch calls and   *)
(* the melt's own.                                                         *)
LawPress == PosPress \cup {DefaultBar}

Call_law ==
    \E law \in Fresh(LawFns), x \in Inputs, P \in LawPress,
       mol \in Molecules, Y \in Overrides :
        LET c == [DefaultCtx EXCEPT !.P = P, !.mol = mol, !.Y = Y]
        IN  Completes(law, "", x, "new", PyNone, c,
                      Return(ApplyLaw(law, x, c), {law}, TheMelt, {}))

Call_law_fugacity ==
    \E law \in ForwardLaws :
        /\ Chained(law)
        /\ Completes(law \o "_fugacity", "", call.res.val, "raw", call.x, call.ctx,
                     Return(ApplyInverse(law, call.res.val, call.ctx),
                            {law \o "_fugacity"}, TheMelt, {}))

(* oneill2020(T, melt) called on its own: at a temperature of the         *)
(* caller's choice, or once more ("again") on the melt and at the          *)
(* temperature of the oneill2020 call just made; fwd_x is then the         *)
(* capacity that call returned.                                            *)
Call_oneill2020 ==
    \E a \in {[src |-> "new", T |-> T, fwd_x |-> PyNone] : T \in Fresh(Temps)}
                \cup (IF Chained("oneill2020")
                      THEN {[src |-> "again", T |-> call.ctx.T,
                             fwd_x |-> call.res.val]}
                      ELSE {}) :
        LET c == oneill2020(a.T, TheMelt)
        IN  Completes("oneill2020", "", PyNone, a.src, a.fwd_x,
                      [DefaultCtx EXCEPT !.T = a.T],
                      Return(c.capacity, {"oneill2020"}, c.melt, {}))

----------------------------------------------------------------------------
(* Two callers evaluating at the same time, as threads of one interpreter  *)
(* would: a thread switch can fall between any two statements, so between  *)
(* a function's write of a melt attribute and the read that follows it.    *)
(* Each caller either calls eguchi2018_fugacity and then reads             *)
(* melt.graphite_sat, or runs S2_fugacity with oneill2020, whose           *)
(* assignment of melt.cm_dry and whose later statements are two steps.     *)

Callers == {1, 2}

(* The melt object caller c passes.                                        *)
MeltOf(c) == IF shared THEN 1 ELSE c

(* The conditions (T, P, fO2 = 10^-k) a caller evaluates at, and the total *)
(* sulfur content it passes.                                               *)
ParConds == {[T |-> 1000, P |-> P, k |-> k] : P \in PosPress, k \in FO2Exps}
ParSulfur == Num(1, 2)

(* pc: "idle"; "called" (eguchi2018_fugacity has returned); "read" (the    *)
(* caller has read the flag: seen); "bound" (S2_fugacity has assigned      *)
(* cm_dry); "returned" (S2_fugacity has returned val, its oneill2020       *)
(* having found the dict `read` in melt.cm_dry).                           *)
IdleCaller ==
    [pc |-> "idle", cond |-> [T |-> 1000, P |-> 100, k |-> 8], root |-> PyNone,
     seen |-> FALSE, read |-> EmptyDict, val |-> PyNone]

Par_eguchi(c) ==
    /\ caller[c].pc = "idle"
    /\ \E cond \in ParConds :
         \E root \in Roots(cond.T, cond.P, cond.k) :
            LET res == eguchi2018_fugacity(root, cond.k, cond.T, cond.P,
                                           melts[MeltOf(c)])
            IN  /\ melts' = [melts EXCEPT ![MeltOf(c)] = res.melt]
                /\ caller' = [caller EXCEPT ![c] =
                                [IdleCaller EXCEPT !.pc = "called", !.cond = cond,
                                                   !.root = root, !.val = res.val]]
    /\ UNCHANGED <<shared, seqvars, nbovars>>

Par_read_flag(c) ==
    /\ caller[c].pc = "called"
    /\ caller' = [caller EXCEPT ![c].pc = "read",
                                ![c].seen = melts[MeltOf(c)].graphite_sat]
    /\ UNCHANGED <<shared, melts, seqvars, nbovars>>

Par_S2_bind(c) ==
    /\ caller[c].pc = "idle"
    /\ \E cond \in ParConds :
         /\ melts' = [melts EXCEPT ![MeltOf(c)] =
                        S2_bind(cond.k, cond.P, melts[MeltOf(c)], c)]
         /\ caller' = [caller EXCEPT ![c] =
                         [IdleCaller EXCEPT !.pc = "bound", !.cond = cond]]
    /\ UNCHANGED <<shared, seqvars, nbovars>>

Par_S2_rest(c) ==
    /\ caller[c].pc = "bound"
    /\ LET cond == caller[c].cond
           res == S2_rest(ParSulfur, cond.k, cond.P, cond.T, melts[MeltOf(c)],
                          RunDef("oneill2020"), "oneill2020")
       IN  /\ melts' = [melts EXCEPT ![MeltOf(c)] = res.melt]
           /\ caller' = [caller EXCEPT ![c].pc = "returned",
                                       ![c].read = melts[MeltOf(c)].cm_dry,
                                       ![c].val = res.val]
    /\ UNCHANGED <<shared, seqvars, nbovars>>

Par_done(c) ==
    /\ caller[c].pc \in {"read", "returned"}
    /\ caller' = [caller EXCEPT ![c] = IdleCaller]
    /\ UNCHANGED <<shared, melts, seqvars, nbovars>>

----------------------------------------------------------------------------
(* NBO evaluated on a composition: every oxide mole fraction is 0..MaxFrac *)
(* units.  nbo is what the evaluation gave, NotRun before it.              *)
MaxFrac == 1

Compositions == [Oxides -> 0..MaxFrac]

NotRun ==
    [out |-> "", exc |-> "", bound |-> {}, al_tet |-> 0, fe_tet |-> 0, val |-> 0]

Call_NBO ==
    /\ nbo = NotRun
    /\ nbo' = NBO(mol_fracs)
    /\ UNCHANGED <<mol_fracs, seqvars, parvars>>

NoNBO ==
    /\ mol_fracs = [ox \in Oxides |-> 0]
    /\ nbo = NotRun

----------------------------------------------------------------------------
NoCallers ==
    /\ caller = [c \in Callers |-> IdleCaller]
    /\ melts = [c \in Callers |-> Melt(FALSE, EmptyDict)]

Init ==
    /\ graphite_sat = FALSE
    /\ cm_dry = EmptyDict
    /\ call = NoCall
    /\ n2 = Idle
    /\ shared = FALSE
    /\ NoCallers
    /\ NoNBO

Next ==
    \/ Call_ch4_melt
    \/ Call_co_melt
    \/ Call_co2_melt
    \/ Call_h2_melt
    \/ Call_h2o_melt
    \/ Call_n_melt
    \/ Call_sulfide_melt
    \/ Call_sulfate_melt
    \/ Call_ch4_fugacity
    \/ Call_co_fugacity
    \/ Call_co2_fugacity
    \/ Call_h2_fugacity
    \/ Call_h2o_fugacity
    \/ Call_S2_fugacity
    \/ Call_n2_fugacity
    \/ N2_seed1
    \/ N2_ladder
    \/ N2_end
    \/ Call_law
    \/ Call_law_fugacity
    \/ Call_oneill2020
    \/ Forget

Spec == Init /\ [][Next]_vars

(* The two callers, on a shared melt or on a melt each.                    *)
InitPar ==
    /\ graphite_sat = FALSE
    /\ cm_dry = EmptyDict
    /\ call = NoCall
    /\ n2 = Idle
    /\ shared \in BOOLEAN
    /\ NoCallers
    /\ NoNBO

NextPar ==
    \E c \in Callers :
        \/ Par_eguchi(c)
        \/ Par_read_flag(c)
        \/ Par_S2_bind(c)
        \/ Par_S2_rest(c)
        \/ Par_done(c)

SpecPar == InitPar /\ [][NextPar]_vars

(* NBO on every composition of the bounded set.                            *)
InitNBO ==
    /\ graphite_sat = FALSE
    /\ cm_dry = EmptyDict
    /\ call = NoCall
    /\ n2 = Idle
    /\ shared = FALSE
    /\ NoCallers
    /\ mol_fracs \in Compositions
    /\ nbo = NotRun

NextNBO == Call_NBO

SpecNBO == InitNBO /\ [][NextNBO]_vars

----------------------------------------------------------------------------
(* The names each model selection function has a branch for.               *)

DispatchFns ==
    {"ch4_melt", "co_melt", "co2_melt", "h2_melt", "h2o_melt", "n_melt",
     "sulfate_melt", "sulfide_melt", "ch4_fugacity", "co_fugacity",
     "co2_fugacity", "h2_fugacity", "h2o_fugacity", "n2_fugacity",
     "S2_fugacity"}

Supported(fn) ==
    CASE fn \in {"ch4_melt", "ch4_fugacity"} -> {"ardia2013", "None"}
      [] fn \in {"co_melt", "co_fugacity"} -> {"armstrong2015", "None"}
      [] fn \in {"co2_melt", "co2_fugacity"} -> {"burguisser2015", "eguchi2018"}
      [] fn \in {"h2_melt", "h2_fugacity"} -> {"burguisser2015", "gaillard2003"}
      [] fn \in {"h2o_melt", "h2o_fugacity"} -> {"burguisser2015"}
      [] fn \in {"n_melt", "n2_fugacity"} -> {"libourel2003"}
      [] fn = "sulfate_melt" -> {"nash2019"}
      [] fn \in {"sulfide_melt", "S2_fugacity"} -> {"oneill2002", "oneill2020"}
      [] OTHER -> {}

(* The last call was a model selection call with a law name it has no      *)
(* branch for, and it has ended.                                           *)
UnsupportedCall ==
    /\ call.fn \in DispatchFns
    /\ call.res.out # "running"
    /\ \/ call.name \notin Supported(call.fn)
       \/ call.fn = "S2_fugacity" /\ call.ctx.name2 # "nash2019"

(* The fugacity coefficient a law uses: the override, else the stored Y.   *)
Yeff(c) == IF c.Y = PyNone THEN c.mol.Y ELSE c.Y

----------------------------------------------------------------------------
(* C1: every model selection function called with a law name it does not   *)
(* support ends in an error: it never returns (None or anything else).     *)
C1_UnsupportedNameRaises ==
    UnsupportedCall => call.res.out = "raise"

----------------------------------------------------------------------------
(* c is a co2_fugacity call that selected eguchi2018_fugacity.             *)
EguchiCall(c) == c.fn = "co2_fugacity" /\ c.name = "eguchi2018"

(* C2: eguchi2018_fugacity with solver root s and graphite buffer g:       *)
(* s > g returns g and sets graphite_sat True; s <= g returns s and sets   *)
(* it False; the value returned is never above g.                          *)
C2_GraphiteCap ==
    EguchiCall(call) =>
        LET s == call.ctx.root
            g == graphite_fco2(call.ctx.T, call.ctx.P, call.ctx.k)
        IN  /\ call.res.out = "return"
            /\ ~IsNaN(s) =>
                 /\ Gt(s, g) => call.res.val = g /\ graphite_sat = TRUE
                 /\ ~Gt(s, g) => call.res.val = s /\ graphite_sat = FALSE
                 /\ ~Gt(call.res.val, g)

C2_Witness ==
    /\ EguchiCall(call)
    /\ ~IsNaN(call.ctx.root)
    /\ Gt(call.ctx.root, graphite_fco2(call.ctx.T, call.ctx.P, call.ctx.k))
    /\ call.res.val = graphite_fco2(call.ctx.T, call.ctx.P, call.ctx.k)
    /\ graphite_sat = TRUE

----------------------------------------------------------------------------
(* C3: every eguchi2018_fugacity call assigns graphite_sat, so after a     *)
(* call the flag is that call's outcome whatever it was before: True from  *)
(* an earlier call is overwritten by False, and False by True.             *)
C3_FlagIsLastOutcome ==
    [][(EguchiCall(call') /\ call' # call) =>
          /\ "graphite_sat" \in call'.res.writes
          /\ graphite_sat' =
               (/\ ~IsNaN(call'.ctx.root)
                /\ Gt(call'.ctx.root,
                      graphite_fco2(call'.ctx.T, call'.ctx.P, call'.ctx.k)))]_vars

C3_Witness ==
    /\ EguchiCall(call)
    /\ call.pre.graphite_sat = TRUE
    /\ graphite_sat = FALSE

----------------------------------------------------------------------------
(* The attempts of a solver log; the last call is a libourel2003 call.     *)
Attempts(sq) == {sq[i] : i \in 1..Len(sq)}

N2Call == call.fn = "n2_fugacity" /\ call.name = "libourel2003"

(* C4: libourel2003_fugacity raises RuntimeError only after the attempt    *)
(* from seed 1 and the attempts from every seed 1e-10 ... 1e-17 have all   *)
(* failed, and then returns nothing; when an attempt succeeds the call     *)
(* returns the fugacity computed from that attempt's root and raises       *)
(* nothing.                                                                *)
C4_RaiseOnlyAfterAllFail ==
    /\ n2.pc = "raise" =>
          /\ \A d \in {0} \cup (10..17) : <<d, "warn">> \in Attempts(n2.seeds)
          /\ \A a \in Attempts(n2.seeds) : a[2] = "warn"
    /\ (N2Call /\ call.res.out = "raise") =>
          /\ call.res.exc = "RuntimeError"
          /\ call.res.val = PyNone
          /\ \A d \in {0} \cup (10..17) : <<d, "warn">> \in Attempts(call.seeds)
          /\ \A a \in Attempts(call.seeds) : a[2] = "warn"
    /\ (N2Call /\ call.res.out = "return") =>
          /\ call.seeds # <<>>
          /\ call.seeds[Len(call.seeds)][2] = "ok"
          /\ \A i \in 1..(Len(call.seeds) - 1) : call.seeds[i][2] = "warn"
          /\ call.res.val = fn2_of(call.ctx.root, call.ctx.Y, call.ctx.P)
          /\ call.res.exc = ""

C4_Witness ==
    /\ N2Call
    /\ call.res.out = "raise"
    /\ call.res.exc = "RuntimeError"
    /\ <<17, "warn">> \in Attempts(call.seeds)

----------------------------------------------------------------------------
(* C5 as stated: at most eight fallback attempts, from seeds 1e-10 ...     *)
(* 1e-17 and none smaller, and at most nine solver attempts in a call.     *)
C5_NineAttempts ==
    \A sq \in {n2.seeds, call.seeds} :
        /\ Len(sq) <= 9
        /\ \A a \in Attempts(sq) : a[1] <= 17

(* C5 amended: at most nine fallback attempts, from seeds 1e-10 ... 1e-18  *)
(* in decade steps and none smaller, the ninth (1e-18) made once 1e-17 has *)
(* failed; when all nine have failed the call raises with no further       *)
(* attempt; a call makes at most ten solver attempts.                      *)
C5_TenAttempts ==
    \A sq \in {n2.seeds, call.seeds} :
        /\ Len(sq) <= 10
        /\ \A i \in 1..Len(sq) :
              /\ sq[i][1] = (IF i = 1 THEN 0 ELSE 8 + i)
              /\ i < Len(sq) => sq[i][2] = "warn"
        /\ (Len(sq) = 10 /\ sq[10][2] = "warn" /\ sq = n2.seeds) => n2.pc = "raise"

C5_Witness ==
    /\ N2Call
    /\ call.res.out = "raise"
    /\ Len(call.seeds) = 10
    /\ call.seeds[10] = <<18, "warn">>

----------------------------------------------------------------------------
(* The last call is a CH4 or CO call with the name "None".                 *)
NoneCall ==
    /\ call.fn \in {"ch4_melt", "co_melt", "ch4_fugacity", "co_fugacity"}
    /\ call.name = "None"

(* C6: ch4_melt, co_melt, ch4_fugacity and co_fugacity called with the     *)
(* name "None" return exactly 0 for every input, non-positive fugacities,  *)
(* contents and pressures included, and evaluate no law.                   *)
C6_NoneIsZero ==
    NoneCall =>
        /\ call.res.out = "return"
        /\ call.res.val = Zero
        /\ call.res.laws = {}

C6_Witness ==
    /\ NoneCall
    /\ call.fn = "ch4_fugacity"
    /\ call.x.s = -1
    /\ call.ctx.P <= 0
    /\ call.res.val = Zero

----------------------------------------------------------------------------
(* The last call is h2o_fugacity with burguisser2015, made on what         *)
(* h2o_melt just returned for a mole fraction m > 0 at P > 0: as returned  *)
(* (src = "raw") or multiplied by cnst.m["h2o"] (src = "wt").              *)
H2ORoundTrip(src) ==
    /\ call.fn = "h2o_fugacity"
    /\ call.name = "burguisser2015"
    /\ call.src = src
    /\ call.fwd_x.s = 1
    /\ call.ctx.P > 0

(* Y * m * P for the forward call the last call was chained to.            *)
YmP == Mul(Mul(Yeff(call.ctx), call.fwd_x), Num(call.ctx.P, 1))

(* C7 as stated: h2o_fugacity(h2o_melt(m, H2O, P), H2O) = Y * m * P.       *)
C7_RoundTripRaw ==
    H2ORoundTrip("raw") => call.res.val = YmP

(* C7 amended: h2o_melt returns moles (the law's weight fraction over      *)
(* cnst.m["h2o"]), so h2o_fugacity(cnst.m["h2o"] * h2o_melt(m, H2O, P),    *)
(* H2O) = Y * m * P, and h2o_fugacity(h2o_melt(m, H2O, P), H2O) =          *)
(* Y * m * P / cnst.m["h2o"] ** (1 / b).                                   *)
C7_RoundTripWt ==
    /\ H2ORoundTrip("wt") => call.res.val = YmP
    /\ H2ORoundTrip("raw") =>
          call.res.val = Div(YmP, Pow(MolarMass("h2o"),
                                      RInv(call.ctx.mol.solCon.b)))

(* a = 1e-4, b = 0.7, Y = 1, m = 0.5, P = 100: 50 bar.                     *)
C7_Witness ==
    /\ H2ORoundTrip("wt")
    /\ call.ctx.mol = Molecule(Ten(<<-4, 1>>), Rat(7, 10), One)
    /\ call.ctx.Y = PyNone
    /\ call.fwd_x = Num(1, 2)
    /\ call.ctx.P = 100
    /\ call.res.val = Num(50, 1)

----------------------------------------------------------------------------
(* The last call is the inverse of `law`, made on what `law` returned for  *)
(* an input f > 0 at P > 0.                                                *)
LawRoundTrip(law) ==
    /\ call.fn = law \o "_fugacity"
    /\ call.src = "raw"
    /\ call.fwd_x.s = 1
    /\ call.ctx.P > 0

(* C8: the closed-form law pairs are exact mirrors for f > 0, P > 0:       *)
(* X_fugacity(X(f, P), P) = f for ardia2013, armstrong2015 and             *)
(* burguisser2015_co2, and = Y * m * P for burguisser2015_h2 and           *)
(* burguisser2015_h2o.                                                     *)
C8_LawPairsMirror ==
    /\ \A law \in {"ardia2013", "armstrong2015", "burguisser2015_co2"} :
          LawRoundTrip(law) => call.res.val = call.fwd_x
    /\ \A law \in {"burguisser2015_h2", "burguisser2015_h2o"} :
          LawRoundTrip(law) => call.res.val = YmP

C8_Witness ==
    /\ LawRoundTrip("armstrong2015")
    /\ call.fwd_x = Num(5, 1)
    /\ call.res.val = Num(5, 1)

----------------------------------------------------------------------------
(* The last call is S2_fugacity and returned a fugacity fS2; Sulfide and   *)
(* Sulfate are what sulfide_melt and then sulfate_melt return for fS2 at   *)
(* the same conditions, with the same capacity law and nash2019.           *)
S2Returned ==
    /\ call.fn = "S2_fugacity"
    /\ call.res.out = "return"
    /\ call.res.val.s = 1

Sulfide ==
    sulfide_melt(call.res.val, call.ctx.k, call.ctx.P, call.ctx.T, TheMelt,
                 call.ctx.cap)

Sulfate ==
    sulfate_melt(call.res.val, call.ctx.k, call.ctx.P, call.ctx.T, Sulfide.melt,
                 RunDef(call.ctx.cap), "nash2019")

----------------------------------------------------------------------------
(* The attributes the step's call assigned, if the step made a call.       *)
Written == IF call' # call THEN call'.res.writes ELSE {}

(* C10: graphite_sat is assigned only by eguchi2018_fugacity, and cm_dry   *)
(* is bound only by S2_fugacity with sulfatename "nash2019"; every other   *)
(* call leaves the flag and the binding of cm_dry as they were.            *)
C10_OnlyTwoWrites ==
    [][/\ ("graphite_sat" \in Written \/ graphite_sat' # graphite_sat) =>
              EguchiCall(call')
       /\ ("cm_dry" \in Written \/ cm_dry'.ref # cm_dry.ref) =>
              call'.fn = "S2_fugacity" /\ call'.ctx.name2 = "nash2019"]_vars

(* sulfide_melt with oneill2020 folded the dict cm_dry names, in place:    *)
(* the contents changed, the binding did not.                              *)
C10_Witness ==
    /\ call.fn = "sulfide_melt"
    /\ call.res.writes = {}
    /\ call.pre.cm_dry.ref = cm_dry.ref
    /\ call.pre.cm_dry # cm_dry
    /\ call.pre.graphite_sat = TRUE
    /\ graphite_sat = TRUE

----------------------------------------------------------------------------
(* The last call is sulfide_melt with a capacity law it supports.          *)
SulfideCall ==
    /\ call.fn = "sulfide_melt"
    /\ call.name \in {"oneill2002", "oneill2020"}

(* C11: sulfide_melt under oneill2002 or oneill2020 changes neither the    *)
(* binding of melt.cm_dry nor any entry of the dict it names: the melt     *)
(* holds the same composition after the call as before it.                 *)
C11_SulfideMeltPure ==
    SulfideCall => call.res.out = "return" /\ cm_dry = call.pre.cm_dry

----------------------------------------------------------------------------
(* The flag value caller c's own eguchi2018_fugacity call wrote: whether   *)
(* its root is above the graphite buffer at its conditions.                *)
OwnOutcome(c) ==
    /\ ~IsNaN(caller[c].root)
    /\ Gt(caller[c].root,
          graphite_fco2(caller[c].cond.T, caller[c].cond.P, caller[c].cond.k))

(* C12: with one melt object per caller, a caller that calls               *)
(* eguchi2018_fugacity and then reads melt.graphite_sat always reads the   *)
(* value its own call wrote; on one shared melt there is an interleaving   *)
(* in which it reads the value the other caller's call wrote, which        *)
(* contradicts its own outcome.                                            *)
C12_OwnMeltOwnFlag ==
    \A c \in Callers :
        (caller[c].pc = "read" /\ ~shared) => caller[c].seen = OwnOutcome(c)

C12_Witness ==
    /\ shared
    /\ \E c \in Callers :
          /\ caller[c].pc = "read"
          /\ caller[c].seen # OwnOutcome(c)
          /\ caller[3 - c].pc \in {"called", "read"}
          /\ caller[c].seen = OwnOutcome(3 - c)

----------------------------------------------------------------------------
(* The dict caller c's own S2_fugacity call assigned to melt.cm_dry.       *)
OwnDict(c) ==
    [ref |-> c, empty |-> FALSE,
     feo |-> IronFraction(caller[c].cond.k, caller[c].cond.P).feo,
     fe2o3 |-> IronFraction(caller[c].cond.k, caller[c].cond.P).fe2o3]

(* C13: with one melt object per caller, oneill2020 inside S2_fugacity     *)
(* always reads the cm_dry the same call wrote; on one shared melt there   *)
(* is an interleaving of two S2_fugacity calls with different fO2 in which *)
(* one call's oneill2020 reads the cm_dry the other call wrote.            *)
C13_OwnMeltOwnDict ==
    \A c \in Callers :
        (caller[c].pc = "returned" /\ ~shared) =>
            /\ caller[c].read = OwnDict(c)
            /\ caller[c].val =
                 S2_fugacity(ParSulfur, caller[c].cond.k, caller[c].cond.P,
                             caller[c].cond.T, Melt(FALSE, EmptyDict),
                             RunDef("oneill2020"), "oneill2020", "nash2019", c).val

C13_Witness ==
    /\ shared
    /\ \E c \in Callers :
          /\ caller[c].pc = "returned"
          /\ caller[c].read.ref = 3 - c
          /\ caller[c].read.fe2o3 # OwnDict(c).fe2o3
          /\ caller[3 - c].cond.k # caller[c].cond.k

----------------------------------------------------------------------------
(* The laws that take a fugacity coefficient, and the values a species     *)
(* object may store for it.                                                *)
OverrideLaws == {"burguisser2015_h2", "gaillard2003_h2", "burguisser2015_h2o"}
StoredYs == {One, Num(2, 1), Num(3, 1)}

(* What the last call returns when made again with a species object that   *)
(* differs only in its stored Y, or with the override Y.                   *)
Again(c) ==
    CASE call.fn \in OverrideLaws -> ApplyLaw(call.fn, call.x, c)
      [] call.fn = "h2_melt" ->
            h2_melt(call.x, c.mol, c.P, TheMelt, call.name, c.Y).val
      [] call.fn = "h2o_melt" ->
            h2o_melt(call.x, c.mol, c.P, call.name, c.Y, TheMelt).val

(* C14: for burguisser2015_h2, gaillard2003_h2, burguisser2015_h2o and for *)
(* h2_melt and h2o_melt, an override Y (any value but None, 0 included)    *)
(* decides the result alone: species objects that differ only in their     *)
(* stored Y give the same result; with no override the stored Y is used.   *)
C14_OverrideSupersedes ==
    (\/ call.fn \in OverrideLaws
     \/ call.fn \in {"h2_melt", "h2o_melt"} /\ call.name \in Supported(call.fn)) =>
        IF call.ctx.Y # PyNone
        THEN \A Y2 \in StoredYs :
                /\ Again([call.ctx EXCEPT !.mol.Y = Y2]) = call.res.val
                /\ Again([call.ctx EXCEPT !.mol.Y = call.ctx.Y, !.Y = PyNone])
                     = call.res.val
        ELSE Again([call.ctx EXCEPT !.Y = call.ctx.mol.Y]) = call.res.val

C14_Witness ==
    /\ call.fn = "burguisser2015_h2"
    /\ call.ctx.Y = Zero
    /\ call.ctx.mol.Y = Num(2, 1)
    /\ call.x.s = 1
    /\ call.res.val = Zero

----------------------------------------------------------------------------
(* C15: whenever libourel2003_fugacity returns (n_melt >= 0, nY > 0,       *)
(* P > 0), the partial pressure it solved for is non-negative, and so is   *)
(* the N2 fugacity it returns.                                             *)
C15_N2NonNegative ==
    (N2Call /\ call.res.out = "return" /\ call.x.s \in {0, 1}) =>
        /\ call.ctx.root.s \in {0, 1}
        /\ call.res.val.s \in {0, 1}

(* A zero melt content, solved from a fallback seed.                       *)
C15_Witness ==
    /\ N2Call
    /\ call.res.out = "return"
    /\ call.x = Zero
    /\ Len(call.seeds) > 1
    /\ call.ctx.root = Zero
    /\ call.res.val = Zero

----------------------------------------------------------------------------
(* The last call is a forward law that takes a logarithm or a fractional   *)
(* power of the fugacity, called with a zero or negative fugacity.         *)
NonPositiveLawCall ==
    /\ call.fn \in {"armstrong2015", "burguisser2015_co2", "burguisser2015_h2",
                    "burguisser2015_h2o", "gaillard2003_h2", "eguchi2018"}
    /\ call.x.s \in {-1, 0}

(* C16: such a call fails with a domain error propagated to the caller; it *)
(* does not complete with a returned number.                               *)
C16_NonPositiveRaises ==
    NonPositiveLawCall => call.res.out = "raise"

----------------------------------------------------------------------------
(* C17: when the root search of eguchi2018_fugacity does not converge, the *)
(* call propagates an error: it does not compare the unconverged value     *)
(* with the graphite buffer, assign melt.graphite_sat and return a         *)
(* fugacity.                                                               *)
C17_UnconvergedIsFatal ==
    (EguchiCall(call) /\ call.ctx.ier # 1) =>
        /\ call.res.out = "raise"
        /\ "graphite_sat" \notin call.res.writes

----------------------------------------------------------------------------
(* C18: the attempts of libourel2003_fugacity in order: the first is from  *)
(* seed 1; a fallback seed is tried only after the seed-1 attempt raised a *)
(* warning; the fallback seeds start at 1e-10, each a factor 10 below the  *)
(* one before and none tried twice; no attempt follows a successful one.   *)
C18_AttemptOrder ==
    [][(n2'.seeds # n2.seeds /\ n2'.seeds # <<>>) =>
          LET old == n2.seeds
              new == n2'.seeds
              a == new[Len(new)]
          IN  /\ new = Append(old, a)
              /\ old = <<>> => a[1] = 0
              /\ old # <<>> =>
                    /\ old[1] = <<0, "warn">>
                    /\ old[Len(old)][2] = "warn"
                    /\ a[1] = (IF Len(old) = 1 THEN 10 ELSE old[Len(old)][1] + 1)
                    /\ \A j \in 1..Len(old) : old[j][1] # a[1]]_vars

C18_Witness ==
    /\ N2Call
    /\ call.res.out = "return"
    /\ call.seeds = <<<<0, "warn">>, <<10, "warn">>, <<11, "warn">>, <<12, "ok">>>>

----------------------------------------------------------------------------
(* The composition oneill2020 takes on the melt m: the dict in cm_dry, or  *)
(* melt.Cm() when cm_dry is empty.                                         *)
CachedComp(m) ==
    IF m.cm_dry.empty THEN Cm
    ELSE [feo |-> m.cm_dry.feo, fe2o3 |-> m.cm_dry.fe2o3]

(* The last call is S2_fugacity with nash2019 and a capacity law it        *)
(* supports.  FreshMelt(k, P) is a melt whose cm_dry is the composition    *)
(* iron_fraction gives at fO2 = 10^-k and P.                               *)
S2Call ==
    /\ call.fn = "S2_fugacity"
    /\ call.ctx.name2 = "nash2019"
    /\ call.name \in {"oneill2002", "oneill2020"}

FreshMelt(k, P) ==
    Melt(FALSE, [ref |-> 1, empty |-> FALSE, feo |-> IronFraction(k, P).feo,
                 fe2o3 |-> IronFraction(k, P).fe2o3])

(* C19: S2_fugacity with nash2019 (1) assigns melt.cm_dry from             *)
(* iron_fraction at the call's fO2 and P, (2) computes the ratio r with    *)
(* nash2019, (3) takes the sulfide part s_melt / (1 + r), (4) evaluates    *)
(* the capacity law and returns (sulfide / capacity) ** 2 * fO2.  The      *)
(* write precedes the read: under oneill2020 the capacity is that of the   *)
(* composition derived in this call, whatever an earlier call cached.      *)
C19_S2StepOrder ==
    S2Call =>
        LET k == call.ctx.k
            P == call.ctx.P
            r == nash2019(k, P, call.ctx.T, RunDef(call.ctx.cap))
            sulfide == Div(call.x, OnePlus(r))
            capacity == IF call.name = "oneill2002"
                        THEN oneill2002(k, P)
                        ELSE oneill2020(call.ctx.T, FreshMelt(k, P)).capacity
        IN  /\ call.res.out = "return"
            /\ "cm_dry" \in call.res.writes
            /\ cm_dry.ref # call.pre.cm_dry.ref
            /\ CachedComp(TheMelt) = (IF call.name = "oneill2002"
                                       THEN IronFraction(k, P)
                                       ELSE Fold(IronFraction(k, P)))
            /\ call.res.val = Mul(Pow(Div(sulfide, capacity), <<2, 1>>), FO2(k))
            /\ call.res.val =
                 S2_fugacity(call.x, k, P, call.ctx.T, Melt(FALSE, EmptyDict),
                             RunDef(call.ctx.cap), call.name, "nash2019", 1).val

(* A call under oneill2020 on a melt that held another composition.        *)
C19_Witness ==
    /\ S2Call
    /\ call.name = "oneill2020"
    /\ ~call.pre.cm_dry.empty
    /\ Fold(call.pre.cm_dry).feo # Fold(IronFraction(call.ctx.k, call.ctx.P)).feo
    /\ cm_dry.feo = Fold(IronFraction(call.ctx.k, call.ctx.P)).feo

----------------------------------------------------------------------------
(* C20: sulfide_melt with oneill2020 never recomputes the composition: it  *)
(* takes the dict cached in melt.cm_dry whenever that is non-empty, and    *)
(* melt.Cm() only when it is empty; the fO2 and P passed affect the result *)
(* only through the factor (fS2 / fO2) ** 0.5.                             *)
C20_CachedComposition ==
    (call.fn = "sulfide_melt" /\ call.name = "oneill2020") =>
        /\ call.res.out = "return"
        /\ call.res.val =
             Div(Mul(Atom("oneill2020:" \o
                          ToString(<<call.ctx.T, Fold(CachedComp(call.pre))>>)),
                     Pow(Div(call.x, FO2(call.ctx.k)), Rat(1, 2))),
                 MolarMass("s"))
        /\ \A k2 \in FO2Exps, P2 \in PosPress :
              Mul(sulfide_melt(call.x, k2, P2, call.ctx.T, call.pre,
                               "oneill2020").val,
                  Pow(FO2(k2), Rat(1, 2)))
                = Mul(call.res.val, Pow(FO2(call.ctx.k), Rat(1, 2)))

(* A call at an fO2 other than the one the cached composition is for.      *)
C20_Witness ==
    /\ call.fn = "sulfide_melt"
    /\ call.name = "oneill2020"
    /\ call.src = "new"
    /\ ~call.pre.cm_dry.empty
    /\ Fold(CachedComp(call.pre)) # Fold(IronFraction(call.ctx.k, call.ctx.P))
    /\ Fold(CachedComp(call.pre)) # Fold(Cm)
    /\ call.res.out = "return"

----------------------------------------------------------------------------
(* C21: gaillard2003_h2 takes the melt density at the call's pressure,     *)
(* gaillard2003_h2_fugacity at the melt's own conditions: for m > 0, Y > 0 *)
(* and P > 0, gaillard2003_h2_fugacity(gaillard2003_h2(m, H2, P, melt),    *)
(* melt) = Y * m * P if and only if melt.rho(P * 1e5) = melt.rho(); in     *)
(* general it is Y * m * P * (rho() / rho(P * 1e5)) ** (1 / 1.28).         *)
C21_GaillardAsymmetry ==
    (LawRoundTrip("gaillard2003_h2") /\ Yeff(call.ctx).s = 1) =>
        /\ (call.res.val = YmP) <=> (Rho(call.ctx.P * 100000) = RhoDefault)
        /\ call.res.val =
             Mul(YmP, Pow(Div(RhoDefault, Rho(call.ctx.P * 100000)),
                          RInv(Rat(128, 100))))

C21_Witness ==
    /\ LawRoundTrip("gaillard2003_h2")
    /\ Yeff(call.ctx).s = 1
    /\ Rho(call.ctx.P * 100000) # RhoDefault
    /\ call.res.val # YmP

----------------------------------------------------------------------------
(* The last call is S2_fugacity with a law name it does not support, and   *)
(* ended without a fugacity.                                               *)
S2Unsupported ==
    /\ call.fn = "S2_fugacity"
    /\ \/ call.ctx.name2 # "nash2019"
       \/ call.name \notin {"oneill2002", "oneill2020"}
    /\ call.res.out = "raise" \/ call.res.val = PyNone

(* C22: an S2_fugacity call that ends without a fugacity because a law     *)
(* name is unsupported leaves the melt exactly as it was: melt.cm_dry is   *)
(* not reassigned.                                                         *)
C22_FailedS2LeavesMelt ==
    S2Unsupported =>
        /\ cm_dry = call.pre.cm_dry
        /\ graphite_sat = call.pre.graphite_sat
        /\ "cm_dry" \notin call.res.writes

----------------------------------------------------------------------------
(* The melt content function whose result a fugacity function takes.       *)
ForwardOf(fn) ==
    CASE fn = "ch4_fugacity" -> "ch4_melt"
      [] fn = "co_fugacity" -> "co_melt"
      [] fn = "co2_fugacity" -> "co2_melt"
      [] fn = "h2_fugacity" -> "h2_melt"
      [] fn = "h2o_fugacity" -> "h2o_melt"
      [] fn = "n2_fugacity" -> "n_melt"
      [] OTHER -> ""

(* The last call is X_fugacity on the result of X_melt, and both were made *)
(* with the law name left out.                                             *)
DefaultChain ==
    /\ ForwardOf(call.fn) # ""
    /\ call.src \in {"raw", "wt"}
    /\ call.fwd_name = DefaultName(ForwardOf(call.fn))
    /\ call.name = DefaultName(call.fn)

(* C23: for every species the melt content function and the fugacity       *)
(* function select the same law when the law name is left out, so X_melt   *)
(* followed by X_fugacity, both without a name, uses one forward/inverse   *)
(* pair; the sulfur functions share their defaults too.                    *)
C23_DefaultsPair ==
    /\ DefaultChain => call.name = call.fwd_name
    /\ DefaultName("sulfide_melt") = DefaultName("S2_fugacity")
    /\ DefaultName("sulfate_melt") = DefaultSulfate

----------------------------------------------------------------------------
(* The last call is the second of two oneill2020 evaluations in a row on   *)
(* the same melt and at the same temperature.                              *)
SecondOneill ==
    /\ call.fn = "oneill2020"
    /\ call.src = "again"
    /\ call.res.out = "return"

(* C24: the second of two oneill2020 evaluations in a row on the same melt *)
(* and T returns the capacity the first returned and leaves melt.cm_dry    *)
(* exactly as the first left it: after the first, fe2o3 is 0 in a          *)
(* non-empty cm_dry, so the fold is applied at most once.                  *)
C24_OneillTwice ==
    SecondOneill =>
        /\ call.res.val = call.fwd_x
        /\ cm_dry = call.pre.cm_dry
        /\ graphite_sat = call.pre.graphite_sat
        /\ ~cm_dry.empty => cm_dry.fe2o3 = 0

(* The first evaluation folded the ferric iron of a non-empty cm_dry.      *)
C24_Witness ==
    /\ SecondOneill
    /\ ~call.fwd_pre.cm_dry.empty
    /\ call.fwd_pre.cm_dry.fe2o3 > 0
    /\ call.pre.cm_dry.feo > call.fwd_pre.cm_dry.feo
    /\ cm_dry = call.pre.cm_dry

----------------------------------------------------------------------------
(* The quantities of the case analysis, from the composition.              *)
Min(a, b) == IF a < b THEN a ELSE b
Max(a, b) == IF a > b THEN a ELSE b
C25nal == 2 * mol_fracs["al2o3"]
C25nfe3 == 2 * mol_fracs["fe2o3"]
C25NM ==
    mol_fracs["mgo"] + mol_fracs["cao"] + mol_fracs["feo"]
      + 2 * mol_fracs["na2o"] + 2 * mol_fracs["k2o"] + mol_fracs["mno"]

(* The branches of each case split whose condition holds.                  *)
AlBranches ==
    LET Al == C25nal - C25NM
    IN  {b \in {"if", "else"} : (b = "if" /\ Al > 0) \/ (b = "else" /\ ~(Al > 0))}

FeBranches ==
    LET Al == C25nal - C25NM
        Fe == C25nfe3 + Al
    IN  {b \in {"if", "elif1", "elif2"} :
            \/ b = "if" /\ Al > 0
            \/ b = "elif1" /\ Al <= 0 /\ Fe > 0
            \/ b = "elif2" /\ Al <= 0 /\ Fe <= 0}

(* C25: in NBO, for non-negative oxide mole fractions, exactly one branch  *)
(* fires in each of the two case splits, so al_tet and fe_tet are assigned *)
(* before they are read; al_tet = min(nal, NM) and                         *)
(* fe_tet = min(nfe3, max(0, NM - nal)), hence 0 <= al_tet <= nal and      *)
(* 0 <= fe_tet <= nfe3.                                                    *)
C25_TetCaseSplit ==
    nbo # NotRun =>
        /\ Cardinality(AlBranches) = 1
        /\ Cardinality(FeBranches) = 1
        /\ nbo.out = "return"
        /\ nbo.bound = {"al_tet", "fe_tet"}
        /\ nbo.al_tet = Min(C25nal, C25NM)
        /\ nbo.fe_tet = Min(C25nfe3, Max(0, C25NM - C25nal))
        /\ 0 <= nbo.al_tet /\ nbo.al_tet <= C25nal
        /\ 0 <= nbo.fe_tet /\ nbo.fe_tet <= C25nfe3

(* Al <= 0 and Fe > 0: part of the ferric iron is tetrahedral.             *)
C25_Witness ==
    /\ nbo # NotRun
    /\ nbo.out = "return"
    /\ C25nal > 0
    /\ C25nal <= C25NM
    /\ nbo.al_tet = C25nal
    /\ 0 < nbo.fe_tet
    /\ nbo.fe_tet < C25nfe3

====
